---- MODULE Spec2Model ----
(***************************************************************************)
(* A model of fast_puc: puc(value, unit, precision, verbose,               *)
(* filecompatible) and get_prefix(exponent).                               *)
(*                                                                         *)
(* Numbers.  A float is modelled as an exact signed decimal m * 10^x (with *)
(* a sign bit of its own, so that IEEE negative zero exists) or one of the *)
(* non-finite values nan, inf.  Binary representation error of floats is   *)
(* not modelled: arithmetic on decimals is exact.                          *)
(* Strings are sequences of one-character strings.                         *)
(***************************************************************************)
EXTENDS Integers, Sequences, FiniteSets, TLC

\* ------------------------------------------------------------------------
\* Bounds of the model
\* ------------------------------------------------------------------------
\* decimal exponents x of the input values m * 10^x range over -MaxX-5 .. MaxX
MaxX == 20
\* digit-count precisions range over 0 .. MaxPrecision
MaxPrecision == 6
\* get_prefix is called on the integers -MaxExponent .. MaxExponent
MaxExponent == 60
\* the longest collection passed as value
MaxItems == 2
\* the longest reference sequence passed as precision
MaxSeqLen == 3
\* the elements of a reference sequence are integers times 10^x, x in 0 .. MaxSeqX
MaxSeqX == 2

\* ------------------------------------------------------------------------
\* Exact decimal arithmetic
\* ------------------------------------------------------------------------
RECURSIVE Pow10(_)
Pow10(n) == IF n <= 0 THEN 1 ELSE 10 * Pow10(n - 1)

RECURSIVE NumDigits(_)
NumDigits(m) == IF m < 10 THEN 1 ELSE 1 + NumDigits(m \div 10)

Abs(n) == IF n < 0 THEN -n ELSE n

\* a finite decimal: (-1)^neg * m * 10^x, kept with no trailing zero in m
RECURSIVE Norm(_, _, _)
Norm(neg, m, x) ==
    IF m = 0 THEN [k |-> "fin", neg |-> neg, m |-> 0, x |-> 0]
    ELSE IF m % 10 = 0 THEN Norm(neg, m \div 10, x + 1)
    ELSE [k |-> "fin", neg |-> neg, m |-> m, x |-> x]

FloatNaN == [k |-> "nan", neg |-> FALSE, m |-> 0, x |-> 0]
FloatInf(neg) == [k |-> "inf", neg |-> neg, m |-> 0, x |-> 0]

\* extended integers: the values of np.floor(np.log10(.)) and of precision
Fin(n) == [k |-> "fin", v |-> n]
NegInf == [k |-> "ninf", v |-> 0]
PosInf == [k |-> "pinf", v |-> 0]
NaN == [k |-> "nan", v |-> 0]

\* np.isfinite
IsFinite(e) == e.k = "fin"

\* np.floor(np.log10(val)) for val >= 0 (or -0.0): -inf at zero
FloorLog10(val) ==
    CASE val.k = "nan" -> NaN
      [] val.k = "inf" -> PosInf
      [] val.k = "fin" /\ val.m = 0 -> NegInf
      [] val.k = "fin" /\ val.m > 0 -> Fin(NumDigits(val.m) - 1 + val.x)

\* m / 10^j rounded to the nearest integer, ties to even (np.round), j >= 1
RoundHalfEvenDiv(m, j) ==
    IF j > NumDigits(m) THEN 0
    ELSE LET d == Pow10(j)
             q == m \div d
             r == m % d
         IN  IF 2 * r > d \/ (2 * r = d /\ q % 2 = 1) THEN q + 1 ELSE q

\* np.round(val * 10 ** k) * 10 ** -k for a finite val and an integer k
RoundAt(val, k) ==
    IF val.x + k >= 0 THEN val
    ELSE Norm(val.neg, RoundHalfEvenDiv(val.m, -(val.x + k)), -k)

\* ------------------------------------------------------------------------
\* Strings
\* ------------------------------------------------------------------------
DigitChar(d) == <<"0", "1", "2", "3", "4", "5", "6", "7", "8", "9">>[d + 1]

RECURSIVE DigitChars(_)
DigitChars(m) ==
    IF m < 10 THEN <<DigitChar(m)>>
    ELSE Append(DigitChars(m \div 10), DigitChar(m % 10))

RECURSIVE Zeros(_)
Zeros(n) == IF n <= 0 THEN <<>> ELSE <<"0">> \o Zeros(n - 1)

\* c in s
HasChar(s, c) == \E i \in 1..Len(s) : s[i] = c

\* sub in s, for a two-character sub
HasPair(s, a, b) == \E i \in 1..(Len(s) - 1) : s[i] = a /\ s[i + 1] = b

\* s.replace(c, "")
RECURSIVE Remove(_, _)
Remove(s, c) ==
    IF s = <<>> THEN <<>>
    ELSE IF Head(s) = c THEN Remove(Tail(s), c)
    ELSE <<Head(s)>> \o Remove(Tail(s), c)

\* s.replace(old, new) for one-character old and new
Replace(s, old, new) == [i \in 1..Len(s) |-> IF s[i] = old THEN new ELSE s[i]]

\* "{0:.Pg}".format(num): P significant digits (0 counts as 1), trailing zeros
\* removed, fixed notation when -4 <= exponent < P and scientific otherwise
FormatG(num, P) ==
    LET sgn == IF num.neg THEN <<"-">> ELSE <<>>
    IN  CASE num.k = "nan" -> <<"n", "a", "n">>
          [] num.k = "inf" -> sgn \o <<"i", "n", "f">>
          [] num.k = "fin" /\ num.m = 0 -> sgn \o <<"0">>
          [] num.k = "fin" /\ num.m > 0 ->
              LET P1 == IF P < 1 THEN 1 ELSE P
                  n == NumDigits(num.m)
                  r == IF n > P1
                       THEN Norm(num.neg, RoundHalfEvenDiv(num.m, n - P1), num.x + (n - P1))
                       ELSE num
                  D == DigitChars(r.m)
                  L == Len(D)
                  X == L - 1 + r.x
                  ex == DigitChars(Abs(X))
              IN  IF -4 <= X /\ X < P1
                  THEN IF X >= 0
                       THEN IF L <= X + 1
                            THEN sgn \o D \o Zeros(X + 1 - L)
                            ELSE sgn \o SubSeq(D, 1, X + 1) \o <<".">> \o SubSeq(D, X + 2, L)
                       ELSE sgn \o <<"0", ".">> \o Zeros(-X - 1) \o D
                  ELSE sgn \o <<D[1]>>
                       \o (IF L > 1 THEN <<".">> \o SubSeq(D, 2, L) ELSE <<>>)
                       \o <<"e", IF X < 0 THEN "-" ELSE "+">>
                       \o (IF Len(ex) < 2 THEN <<"0">> \o ex ELSE ex)

\* ------------------------------------------------------------------------
\* The SI prefix table
\* ------------------------------------------------------------------------
MICRO_SYMBOL == "µ"
DB_UNIT == <<"d", "B">>
PERCENT_UNIT == <<"%">>

SIPrefix ==
    [ATTO |-> <<-18, <<"a">>>>, FEMTO |-> <<-15, <<"f">>>>, PICO |-> <<-12, <<"p">>>>,
     NANO |-> <<-9, <<"n">>>>, MICRO |-> <<-6, <<MICRO_SYMBOL>>>>, MILLI |-> <<-3, <<"m">>>>,
     NONE |-> <<0, <<>>>>, KILO |-> <<3, <<"k">>>>, MEGA |-> <<6, <<"M">>>>,
     GIGA |-> <<9, <<"G">>>>, TERA |-> <<12, <<"T">>>>, PETA |-> <<15, <<"P">>>>]

\* FILE_REPLACEMENTS, in the order of the dict
FILE_REPLACEMENTS == <<<<MICRO_SYMBOL, "u">>, <<".", "p">>, <<"/", "p">>, <<" ", "_">>>>

\* exponent <= n for a float exponent: true of -inf, false of nan and +inf
Le(exponent, n) ==
    CASE exponent.k = "ninf" -> TRUE
      [] exponent.k = "fin" -> exponent.v <= n
      [] OTHER -> FALSE

\* get_prefix with a slip in one threshold: the no-prefix band ends at 1
get_prefix_early_kilo(exponent) ==
    IF Le(exponent, -19) THEN SIPrefix.NONE
    ELSE IF Le(exponent, -16) THEN SIPrefix.ATTO
    ELSE IF Le(exponent, -13) THEN SIPrefix.FEMTO
    ELSE IF Le(exponent, -10) THEN SIPrefix.PICO
    ELSE IF Le(exponent, -7) THEN SIPrefix.NANO
    ELSE IF Le(exponent, -4) THEN SIPrefix.MICRO
    ELSE IF Le(exponent, -1) THEN SIPrefix.MILLI
    ELSE IF Le(exponent, 1) THEN SIPrefix.NONE
    ELSE IF Le(exponent, 5) THEN SIPrefix.KILO
    ELSE IF Le(exponent, 8) THEN SIPrefix.MEGA
    ELSE IF Le(exponent, 11) THEN SIPrefix.GIGA
    ELSE IF Le(exponent, 14) THEN SIPrefix.TERA
    ELSE IF Le(exponent, 17) THEN SIPrefix.PETA
    ELSE SIPrefix.NONE

get_prefix(exponent) ==
    IF Le(exponent, -19) THEN SIPrefix.NONE
    ELSE IF Le(exponent, -16) THEN SIPrefix.ATTO
    ELSE IF Le(exponent, -13) THEN SIPrefix.FEMTO
    ELSE IF Le(exponent, -10) THEN SIPrefix.PICO
    ELSE IF Le(exponent, -7) THEN SIPrefix.NANO
    ELSE IF Le(exponent, -4) THEN SIPrefix.MICRO
    ELSE IF Le(exponent, -1) THEN SIPrefix.MILLI
    ELSE IF Le(exponent, 2) THEN SIPrefix.NONE
    ELSE IF Le(exponent, 5) THEN SIPrefix.KILO
    ELSE IF Le(exponent, 8) THEN SIPrefix.MEGA
    ELSE IF Le(exponent, 11) THEN SIPrefix.GIGA
    ELSE IF Le(exponent, 14) THEN SIPrefix.TERA
    ELSE IF Le(exponent, 17) THEN SIPrefix.PETA
    ELSE SIPrefix.NONE

\* ------------------------------------------------------------------------
\* puc, stage by stage
\* ------------------------------------------------------------------------
\* What a call does: it returns, or it raises.  A verbose call returns
\* (string, mult, prefix) and any other call string alone.  sign, mult, prefix,
\* rounded (val), exponent, digits (precision) and num (the number handed to
\* format()) are the locals as they stand when the call returns; bound tells
\* whether mult and prefix were assigned at all.
NoFloat == Norm(FALSE, 0, 0)

Raise(exc, msg, names_value) ==
    [status |-> "raise", exc |-> exc, msg |-> msg, names_value |-> names_value,
     verbose |-> FALSE, string |-> <<>>, bound |-> FALSE, mult |-> 0, prefix |-> <<>>,
     sign |-> 1, rounded |-> NoFloat, exponent |-> NaN, digits |-> NaN, num |-> NoFloat]

Return(verbose, string, bound, mult, prefix, sign, rounded, exponent, digits, num) ==
    [status |-> "return", exc |-> "", msg |-> "", names_value |-> FALSE,
     verbose |-> verbose, string |-> string, bound |-> bound, mult |-> mult,
     prefix |-> prefix,
     sign |-> sign, rounded |-> rounded, exponent |-> exponent, digits |-> digits,
     num |-> num]

\* np.squeeze(value).astype(float): the elements of the array it yields (one
\* element: a 0-d array), or nothing when astype raises
ToFloat(value) ==
    IF value.kind = "text" THEN [ok |-> FALSE, items |-> <<>>]
    ELSE [ok |-> TRUE, items |-> value.items]

\* the separator and the file-compatibility marker of the unit
Preprocess(unit, filecompatible) ==
    LET spaced == HasChar(unit, " ")
        scored == ~spaced /\ HasChar(unit, "_")
        u1 == IF spaced THEN Remove(unit, " ")
              ELSE IF scored THEN Remove(unit, "_") ELSE unit
        marked == HasChar(u1, "!")
    IN  [separator |-> IF spaced THEN <<" ">> ELSE IF scored THEN <<"_">> ELSE <<>>,
         filecompatible |-> filecompatible \/ marked,
         unit |-> IF marked THEN Remove(u1, "!") ELSE u1]

\* sign * num
TimesSign(sign, num) ==
    IF num.k = "nan" \/ sign = 1 THEN num ELSE [num EXCEPT !.neg = ~num.neg]

\* val < 0
IsNegative(val) == val.k \in {"fin", "inf"} /\ val.neg /\ (val.k = "inf" \/ val.m > 0)

\* sign = 1; if val < 0: sign = -1; val *= sign
SaveSign(val) ==
    LET sign == IF IsNegative(val) THEN -1 ELSE 1
    IN  [sign |-> sign, val |-> TimesSign(sign, val)]

\* np.min(np.abs(np.diff(elems))) of a sequence of two or more integers
RECURSIVE MinAbsDiff(_)
MinAbsDiff(elems) ==
    LET d == Abs(elems[2] - elems[1])
    IN  IF Len(elems) = 2 THEN d
        ELSE LET rest == MinAbsDiff(Tail(elems))
             IN  IF d < rest THEN d ELSE rest

\* np.abs(a - b) + 1 on float exponents
AbsDiffPlus1(a, b) ==
    CASE a.k = "fin" /\ b.k = "fin" -> Fin(Abs(a.v - b.v) + 1)
      [] a.k = "nan" \/ b.k = "nan" -> NaN
      [] a.k = b.k /\ a.k # "fin" -> NaN
      [] OTHER -> PosInf

\* the exponent the rounding uses and the number of significant digits:
\* precision is a count [kind |-> "count", n |-> p] or a reference sequence
\* [kind |-> "seq", elems |-> <<e1, e2, ..>>, x |-> x] of the values ei * 10^x
ResolvePrecision(precision, val) ==
    IF precision.kind = "seq"
    THEN LET exponent == FloorLog10(Norm(FALSE, MinAbsDiff(precision.elems), precision.x))
         IN  [exponent |-> exponent, precision |-> AbsDiffPlus1(exponent, FloorLog10(val))]
    ELSE [exponent |-> FloorLog10(val), precision |-> Fin(precision.n)]

\* round value to appropriate length
RoundValue(val, exponent, precision) ==
    IF IsFinite(exponent)
    THEN CASE precision.k = "fin" /\ val.k = "fin" ->
                  RoundAt(val, -exponent.v - 1 + precision.v)
           [] precision.k = "fin" /\ val.k # "fin" -> val
           [] OTHER -> FloatNaN
    ELSE val

\* FixSpecialCase with a slip in the list: the shift is applied at 3 digits too
FixSpecialCaseAtThree(exponent, precision) ==
    IF precision.k = "fin" /\ precision.v \in {3, 4, 5} /\ exponent.k = "fin"
    THEN Fin(exponent.v - 3)
    ELSE exponent

\* if precision in [4, 5]: exponent -= 3
FixSpecialCase(exponent, precision) ==
    IF precision.k = "fin" /\ precision.v \in {4, 5} /\ exponent.k = "fin"
    THEN Fin(exponent.v - 3)
    ELSE exponent

\* num * 10 ** n
TimesPow10(num, n) ==
    IF num.k = "fin" /\ num.m > 0 THEN [num EXCEPT !.x = num.x + n] ELSE num

\* 10 * np.log10(val), modelled where it is a decimal: at zero, at nan and
\* at the powers of ten
TenLog10(val) ==
    CASE val.k = "nan" -> FloatNaN
      [] val.k = "fin" /\ val.m = 0 -> FloatInf(TRUE)
      [] val.k = "fin" /\ val.m = 1 -> Norm(val.x < 0, 10 * Abs(val.x), 0)

\* FileCompatible with the "/" entry missing from the table
FileCompatibleKeepsSlash(string) ==
    Replace(Replace(Replace(string, FILE_REPLACEMENTS[1][1], FILE_REPLACEMENTS[1][2]),
                    FILE_REPLACEMENTS[2][1], FILE_REPLACEMENTS[2][2]),
            FILE_REPLACEMENTS[4][1], FILE_REPLACEMENTS[4][2])

\* for old, new in FILE_REPLACEMENTS.items(): string = string.replace(old, new)
FileCompatible(string) ==
    Replace(Replace(Replace(Replace(string,
                                    FILE_REPLACEMENTS[1][1], FILE_REPLACEMENTS[1][2]),
                            FILE_REPLACEMENTS[2][1], FILE_REPLACEMENTS[2][2]),
                    FILE_REPLACEMENTS[3][1], FILE_REPLACEMENTS[3][2]),
            FILE_REPLACEMENTS[4][1], FILE_REPLACEMENTS[4][2])

\* Recompute left out: the exponent of the value before rounding is kept
RecomputeKeepsOld(old, val) == old

\* exponent = np.floor(np.log10(val)) after the rounding
Recompute(old, val) == FloorLog10(val)

\* the body of puc after the conversion of value to the scalar val
Format(val0, unit0, precision0, verbose, filecompatible0) ==
    LET pre == Preprocess(unit0, filecompatible0)
        separator == pre.separator
        unit == pre.unit
        ss == SaveSign(val0)
        sign == ss.sign
        rp == ResolvePrecision(precision0, ss.val)
        precision == rp.precision
        val == RoundValue(ss.val, rp.exponent, precision)
        exponent == FixSpecialCase(Recompute(rp.exponent, val), precision)
        plain == unit \notin {DB_UNIT, PERCENT_UNIT}
        pf == IF plain THEN get_prefix(exponent) ELSE SIPrefix.NONE
        mult == pf[1]
        prefix == pf[2]
        num == IF unit = DB_UNIT THEN TenLog10(val)
               ELSE IF unit = PERCENT_UNIT THEN TimesPow10(TimesSign(sign, val), 2)
               ELSE TimesPow10(TimesSign(sign, val), -mult)
        first == FormatG(num, precision.v) \o separator
                 \o (IF plain THEN prefix ELSE <<>>) \o unit
        string == IF plain /\ HasPair(first, "e", "+")
                  THEN FormatG(num, precision.v + 1) \o separator \o prefix \o unit
                  ELSE first
        final == IF pre.filecompatible THEN FileCompatible(string) ELSE string
    IN  CASE precision.k = "pinf" ->
                 Raise("OverflowError", "cannot convert float infinity to integer", FALSE)
          [] precision.k = "nan" ->
                 Raise("ValueError", "cannot convert float NaN to integer", FALSE)
          [] precision.k = "fin" /\ verbose /\ ~plain ->
                 Raise("UnboundLocalError", "mult referenced before assignment", FALSE)
          [] OTHER ->
                 Return(verbose, final, plain, mult, prefix, sign, val, exponent,
                        precision, num)

\* puc(value, unit, precision, verbose, filecompatible), for a unit that is a
\* string and flags that are booleans
puc(value, unit, precision, verbose, filecompatible) ==
    LET conv == ToFloat(value)
    IN  IF ~conv.ok
        THEN Raise("ValueError", "Cannot convert value to float", TRUE)
        ELSE IF Len(conv.items) > 1
        THEN Raise("ValueError", "The truth value of an array is ambiguous", FALSE)
        ELSE Format(conv.items[1], unit, precision, verbose, filecompatible)

\* ------------------------------------------------------------------------
\* The calls
\* ------------------------------------------------------------------------
\* the last call made (none at first), its arguments and what it did
VARIABLES called, args, ret

vars == <<called, args, ret>>

\* a scalar value (-1)^neg * m * 10^x, a list of such, a non-numeric text
Scalar(neg, m, x) == [kind |-> "scalar", items |-> <<Norm(neg, m, x)>>]
List(items) == [kind |-> "list", items |-> items]
Text == [kind |-> "text", items |-> <<>>]

Count(n) == [kind |-> "count", n |-> n]
RefSeq(elems, x) == [kind |-> "seq", elems |-> elems, x |-> x]

Mantissas == {1, 25, 999, 1001, 1030, 123456, 999999}
Zeroes == {Scalar(FALSE, 0, 0), Scalar(TRUE, 0, 0)}

\* the values of the sweep over magnitudes: every mantissa at every exponent,
\* both signs, and the two zeroes
SweepValues ==
    {Scalar(neg, m, x) : neg \in BOOLEAN, m \in Mantissas, x \in (-MaxX - 5)..MaxX}
        \cup Zeroes

\* a few values for the sweeps over units, flags and reference sequences
FewValues ==
    {Scalar(FALSE, 1030, -9), Scalar(TRUE, 911, -3), Scalar(FALSE, 25, 1),
     Scalar(FALSE, 1001, -3), Scalar(FALSE, 1001, 0), Scalar(TRUE, 5, 0),
     Scalar(FALSE, 3, 2)} \cup Zeroes

\* the values of the dB sweep: powers of ten and the zeroes
DbValues == {Scalar(neg, 1, x) : neg \in BOOLEAN, x \in -3..3} \cup Zeroes

PlainUnits ==
    {<<>>, <<"W">>, <<" ", "m">>, <<"_", "m">>, <<"!", "m">>, <<"m", "/", "s">>,
     <<"_", " ", "m", "!">>}
PercentUnits == {<<"%">>, <<" ", "%">>, <<"!", "%">>}
DbUnits == {<<"d", "B">>, <<"_", "d", "B">>, <<"!", "d", "B">>}

\* reference sequences: integers times 10^x with x >= 0, which floats hold
\* exactly, of at most MaxSeqLen elements and with x <= MaxSeqX
SeqElems == {1, 2, 100}
RefSeqs ==
    {RefSeq(e, x) : e \in UNION {[1..n -> SeqElems] : n \in 2..MaxSeqLen}, x \in 0..MaxSeqX}

Call(value, unit, precision, verbose, filecompatible) ==
    [value |-> value, unit |-> unit, precision |-> precision, verbose |-> verbose,
     filecompatible |-> filecompatible]

PucArgs ==
    {Call(v, u, Count(p), FALSE, FALSE) :
        v \in SweepValues, u \in {<<"W">>, <<"%">>}, p \in 0..MaxPrecision}
    \cup {Call(v, u, Count(p), vb, fc) :
        v \in FewValues, u \in PlainUnits \cup PercentUnits, p \in {1, 3},
        vb \in BOOLEAN, fc \in BOOLEAN}
    \cup {Call(v, u, Count(3), vb, fc) :
        v \in DbValues, u \in DbUnits, vb \in BOOLEAN, fc \in BOOLEAN}
    \cup {Call(v, u, q, vb, FALSE) :
        v \in FewValues, u \in {<<"m">>, <<"!", "m">>}, q \in RefSeqs, vb \in BOOLEAN}
    \cup {Call(v, <<"s">>, Count(3), FALSE, FALSE) :
        v \in {Text} \cup {List(i) : i \in UNION {[1..n -> {w.items[1] : w \in FewValues}]
                                                   : n \in 1..MaxItems}}}

Init ==
    /\ called = "none"
    /\ args = <<>>
    /\ ret = <<>>

PucCall ==
    /\ called = "none"
    /\ \E a \in PucArgs :
        /\ called' = "puc"
        /\ args' = a
        /\ ret' = puc(a.value, a.unit, a.precision, a.verbose, a.filecompatible)

GetPrefixCall ==
    /\ called = "none"
    /\ \E e \in -MaxExponent..MaxExponent :
        /\ called' = "get_prefix"
        /\ args' = [exponent |-> e]
        /\ ret' = get_prefix(Fin(e))

Next == PucCall \/ GetPrefixCall

Spec == Init /\ [][Next]_vars

\* ------------------------------------------------------------------------
\* Reading a rendered string back
\* ------------------------------------------------------------------------
IsDigit(c) == c \in {"0", "1", "2", "3", "4", "5", "6", "7", "8", "9"}
CharDigit(c) == CHOOSE d \in 0..9 : DigitChar(d) = c

\* the first index from i on that holds no digit
RECURSIVE DigitsEnd(_, _)
DigitsEnd(s, i) == IF i <= Len(s) /\ IsDigit(s[i]) THEN DigitsEnd(s, i + 1) ELSE i

\* the number the digits s[a..b] spell
RECURSIVE IntOf(_, _, _)
IntOf(s, a, b) == IF b < a THEN 0 ELSE 10 * IntOf(s, a, b - 1) + CharDigit(s[b])

\* the number at the head of a rendered string: [-]digits[.digits][e+-digits],
\* the point written "." or, in a filename-compatible string, "p"
Rendered(s) ==
    LET neg == Len(s) > 0 /\ s[1] = "-"
        a == IF neg THEN 2 ELSE 1
        b == DigitsEnd(s, a)
        hasFrac == b + 1 <= Len(s) /\ s[b] \in {".", "p"} /\ IsDigit(s[b + 1])
        c == IF hasFrac THEN DigitsEnd(s, b + 1) ELSE b
        hasExp == c + 2 <= Len(s) /\ s[c] = "e" /\ s[c + 1] \in {"+", "-"}
                  /\ IsDigit(s[c + 2])
        d == IF hasExp THEN DigitsEnd(s, c + 2) ELSE c
        X == IF hasExp
             THEN (IF s[c + 1] = "-" THEN -1 ELSE 1) * IntOf(s, c + 2, d - 1)
             ELSE 0
        fracLen == IF hasFrac THEN c - b - 1 ELSE 0
        mant == IntOf(s, a, b - 1) * Pow10(fracLen)
                + (IF hasFrac THEN IntOf(s, b + 1, c - 1) ELSE 0)
    IN  Norm(neg, mant, X - fracLen)

\* whether the numeric part at the head of s is in scientific form
Scientific(s) ==
    LET a == IF Len(s) > 0 /\ s[1] = "-" THEN 2 ELSE 1
        b == DigitsEnd(s, a)
        c == IF b + 1 <= Len(s) /\ s[b] \in {".", "p"} /\ IsDigit(s[b + 1])
             THEN DigitsEnd(s, b + 1) ELSE b
    IN  c + 2 <= Len(s) /\ s[c] = "e" /\ s[c + 1] \in {"+", "-"} /\ IsDigit(s[c + 2])

\* ------------------------------------------------------------------------
\* The calls the claims are about
\* ------------------------------------------------------------------------
PucCalled == called = "puc"
Returned == PucCalled /\ ret.status = "return"
Raised == PucCalled /\ ret.status = "raise"

\* the unit token left once separator and "!" are taken out
Token(unit) == Remove(Remove(Remove(unit, " "), "_"), "!")
IsPlainUnit(unit) == Token(unit) \notin {<<"d", "B">>, <<"%">>}

IsScalar(value) == value.kind = "scalar"
TheValue(value) == value.items[1]
IsZero(value) == IsScalar(value) /\ TheValue(value).k = "fin" /\ TheValue(value).m = 0
IsNonzeroFinite(value) ==
    IsScalar(value) /\ TheValue(value).k = "fin" /\ TheValue(value).m > 0
IsCount(precision) == precision.kind = "count"
IsRefSeq(precision) == precision.kind = "seq"

\* exponent - 3 on a float exponent
Minus3(e) == IF e.k = "fin" THEN Fin(e.v - 3) ELSE e

\* the rows of the SI table
Rows == {SIPrefix[n] : n \in DOMAIN SIPrefix}
NoPrefix == <<0, <<>>>>

\* ------------------------------------------------------------------------
\* C1
\* ------------------------------------------------------------------------
InPrefixedRange(e) == e \in -18..17
IsFallback(e) == e <= -19 \/ e > 17

\* C1, as amended: get_prefix(e) is one row of the SI table for every integer e;
\* for e in -18..17 the residual e - multiplier is 0, 1 or 2; the fallback rows
\* (e <= -19, e > 17) return multiplier 0 with the empty symbol, and the only
\* other exponents that do are 0, 1 and 2, the no-prefix band.
C1_PrefixTable ==
    called = "get_prefix" =>
        LET e == args.exponent
        IN  /\ ret \in Rows
            /\ InPrefixedRange(e) => (e - ret[1]) \in {0, 1, 2}
            /\ IsFallback(e) => ret = NoPrefix
            /\ ret = NoPrefix => (IsFallback(e) \/ e \in {0, 1, 2})

\* C1's case: exponent 2, the upper edge of the no-prefix band inside the
\* prefixed range: multiplier 0, empty symbol, residual 2
C1_Witness ==
    /\ called = "get_prefix"
    /\ args.exponent = 2
    /\ InPrefixedRange(args.exponent)
    /\ ret = NoPrefix

\* C1 as stated: one row, residual in {0,1,2} on -18..17, and ONLY the fallback
\* rows return multiplier 0 with an empty symbol.
C1_Original ==
    called = "get_prefix" =>
        LET e == args.exponent
        IN  /\ ret \in Rows
            /\ InPrefixedRange(e) => (e - ret[1]) \in {0, 1, 2}
            /\ IsFallback(e) => ret = NoPrefix
            /\ ret = NoPrefix => IsFallback(e)

\* ------------------------------------------------------------------------
\* C2
\* ------------------------------------------------------------------------
\* C2: a verbose call on a scalar value with a digit-count precision returns
\* (string, multiplier, prefix) in every unit branch: multiplier 0 and prefix ""
\* for "dB" and "%", those of get_prefix for a plain unit.
C2_VerboseTriple ==
    (PucCalled /\ args.verbose /\ IsScalar(args.value) /\ IsCount(args.precision)) =>
        /\ ret.status = "return"
        /\ ret.verbose
        /\ IF IsPlainUnit(args.unit)
           THEN <<ret.mult, ret.prefix>> = get_prefix(ret.exponent)
           ELSE ret.mult = 0 /\ ret.prefix = <<>>

\* ------------------------------------------------------------------------
\* C3
\* ------------------------------------------------------------------------
\* C3: a value that is a collection of two or more elements, or non-numeric,
\* makes puc raise the value-conversion error whose message names the input;
\* a one-element collection is formatted like the scalar it holds.
C3_ValueConversion ==
    PucCalled =>
        /\ (args.value.kind = "text" \/ Len(args.value.items) >= 2) =>
               (ret.status = "raise" /\ ret.exc = "ValueError" /\ ret.names_value)
        /\ (args.value.kind = "list" /\ Len(args.value.items) = 1) =>
               ret = puc([kind |-> "scalar", items |-> args.value.items], args.unit,
                         args.precision, args.verbose, args.filecompatible)

\* ------------------------------------------------------------------------
\* C4
\* ------------------------------------------------------------------------
\* C4: for value 0, a plain unit and any precision (a count or a reference
\* sequence), puc raises nothing, renders no nan, and the string is "0", the
\* separator and the unit, with no prefix.
C4_Zero ==
    (PucCalled /\ IsZero(args.value) /\ ~TheValue(args.value).neg
       /\ IsPlainUnit(args.unit) /\ ~args.verbose /\ ~args.filecompatible
       /\ ~HasChar(args.unit, "!")) =>
        /\ ret.status = "return"
        /\ ret.string = <<"0">> \o Preprocess(args.unit, FALSE).separator \o Token(args.unit)

\* ------------------------------------------------------------------------
\* C5
\* ------------------------------------------------------------------------
C5_Case ==
    /\ Returned
    /\ IsNonzeroFinite(args.value)
    /\ IsCount(args.precision) /\ args.precision.n \notin {4, 5}
    /\ IsPlainUnit(args.unit)
    /\ FloorLog10(ret.rounded).k = "fin"
    /\ FloorLog10(ret.rounded).v \in -18..17

\* C5: for a plain unit and a digit count p not in {4, 5}, the prefix is the one
\* of the exponent of the value after rounding, and the rendered mantissa m
\* satisfies 1 <= m < 1000 whenever that exponent is in -18..17.
C5_PrefixAfterRounding ==
    C5_Case =>
        /\ <<ret.mult, ret.prefix>> = get_prefix(FloorLog10(ret.rounded))
        /\ Rendered(ret.string).m > 0
        /\ FloorLog10(Rendered(ret.string)).v \in {0, 1, 2}

\* C5's case: 999.999 W at 3 digits rounds across the prefix boundary: 1kW
C5_Witness ==
    /\ C5_Case
    /\ args.value = Scalar(FALSE, 999999, -3)
    /\ args.precision.n = 3
    /\ FloorLog10(TheValue(args.value)) = Fin(2)
    /\ FloorLog10(ret.rounded) = Fin(3)
    /\ ret.string = <<"1", "k", "W">>

\* ------------------------------------------------------------------------
\* C6
\* ------------------------------------------------------------------------
C6_Case == Returned /\ IsScalar(args.value) /\ IsPlainUnit(args.unit)

\* C6: in the plain-unit branch the multiplier and prefix are get_prefix(e - 3)
\* when the resolved digit count is 4 or 5 and get_prefix(e) for every other
\* count, e the exponent of the rounded value, whether the count was given or
\* derived from a reference sequence.
C6_ShiftAtFourOrFive ==
    C6_Case =>
        LET e == FloorLog10(ret.rounded)
        IN  IF ret.digits \in {Fin(4), Fin(5)}
            THEN <<ret.mult, ret.prefix>> = get_prefix(Minus3(e))
            ELSE <<ret.mult, ret.prefix>> = get_prefix(e)

\* C6's case: a count of 4 derived from a reference sequence moves the prefix
\* one step down from the one of the rounded value's exponent
C6_Witness ==
    /\ C6_Case
    /\ IsRefSeq(args.precision)
    /\ ret.digits = Fin(4)
    /\ FloorLog10(ret.rounded) = Fin(3)
    /\ get_prefix(FloorLog10(ret.rounded)) = <<3, <<"k">>>>
    /\ ret.mult = 0

\* ------------------------------------------------------------------------
\* C7
\* ------------------------------------------------------------------------
FcActive(a) == a.filecompatible \/ HasChar(a.unit, "!")

\* the substitution of the claim, character by character
Subst(c) ==
    CASE c = "µ" -> "u"
      [] c = "." -> "p"
      [] c = "/" -> "p"
      [] c = " " -> "_"
      [] OTHER -> c

\* the same call with filename-compatible rendering inactive
Inactive(a) == puc(a.value, Remove(a.unit, "!"), a.precision, a.verbose, FALSE)

\* C7: when filename-compatible rendering is active (the flag, or "!" in the
\* unit), the string is the one of the same call with it inactive with µ, ".",
\* "/" and space replaced by u, p, p and _; none of µ . / space ! is in it.
C7_FileCompatible ==
    (PucCalled /\ FcActive(args)) =>
        /\ ret.status = Inactive(args).status
        /\ ret.status = "return" =>
            /\ ret.string = [i \in 1..Len(Inactive(args).string) |->
                                Subst(Inactive(args).string[i])]
            /\ \A i \in 1..Len(ret.string) : ret.string[i] \notin {"µ", ".", "/", " ", "!"}

\* C7's case: "!" in the unit alone turns 1.03µm into 1p03um
C7_Witness ==
    /\ Returned
    /\ ~args.filecompatible
    /\ args.unit = <<"!", "m">>
    /\ Inactive(args).string = <<"1", ".", "0", "3", "µ", "m">>
    /\ ret.string = <<"1", "p", "0", "3", "u", "m">>

\* ------------------------------------------------------------------------
\* C8
\* ------------------------------------------------------------------------
\* C8: in the plain-unit branch, for every nonzero finite value and every digit
\* count, the numeric part of the string returned is not in scientific form.
C8_NoScientific ==
    (Returned /\ IsNonzeroFinite(args.value) /\ IsCount(args.precision)
       /\ IsPlainUnit(args.unit)) =>
        ~Scientific(ret.string)

\* ------------------------------------------------------------------------
\* C9
\* ------------------------------------------------------------------------
\* the smallest difference between adjacent elements in sorted order: the
\* smallest difference between any two elements
MinSortedDiff(elems) ==
    LET pairs == {<<i, j>> \in (1..Len(elems)) \X (1..Len(elems)) : i < j}
    IN  CHOOSE d \in {Abs(elems[q[1]] - elems[q[2]]) : q \in pairs} :
            \A q \in pairs : d <= Abs(elems[q[1]] - elems[q[2]])

\* C9: with a reference sequence the resolved digit count is
\* |floor(log10(d)) - floor(log10(|value|))| + 1, d the smallest difference
\* between adjacent elements of the SORTED sequence.
C9_SortedSpacing ==
    (Returned /\ IsScalar(args.value) /\ IsRefSeq(args.precision)) =>
        ret.digits =
            AbsDiffPlus1(
                FloorLog10(Norm(FALSE, MinSortedDiff(args.precision.elems), args.precision.x)),
                FloorLog10(TheValue(args.value)))

\* ------------------------------------------------------------------------
\* C10
\* ------------------------------------------------------------------------
\* the call on |v| in place of v
OfMagnitude(a) ==
    puc([kind |-> "scalar", items |-> <<[TheValue(a.value) EXCEPT !.neg = FALSE]>>],
        a.unit, a.precision, a.verbose, a.filecompatible)

\* C10: for a nonzero finite v, a digit count and a plain or "%" unit, the
\* rounding and prefix of -v are those of |v| and the string for -v is "-"
\* followed by the string for |v|; for value 0 no minus sign is rendered.
C10_SignSymmetry ==
    (Returned /\ IsScalar(args.value) /\ TheValue(args.value).k = "fin"
       /\ IsCount(args.precision) /\ Token(args.unit) # <<"d", "B">>) =>
        /\ (IsNonzeroFinite(args.value) /\ TheValue(args.value).neg) =>
            /\ ret.string = <<"-">> \o OfMagnitude(args).string
            /\ ret.rounded = OfMagnitude(args).rounded
            /\ ret.mult = OfMagnitude(args).mult
            /\ ret.prefix = OfMagnitude(args).prefix
        /\ IsZero(args.value) => ret.string[1] # "-"

====
